---- MODULE Spec2Model ----
(***************************************************************************)
(* Model of src/YouTubeDownloader.py: the YouTubeVideo class               *)
(* (__validate_target, save_video_as, save_audio_as, save_as) and main.    *)
(* The file system, the clock read by datetime.now(), the pytube stream    *)
(* list and the ffmpeg process are the environment of the program.         *)
(***************************************************************************)
EXTENDS Integers, Sequences, FiniteSets, TLC

\* ---------------------------------------------------------------- bounds
\* longest stream list the provider returns
MaxStreams == 2
\* last clock tick (the clock stops there)
MaxClock == 2
\* clock ticks per second: strftime('%Y%m%d_%H%M%S') has one-second resolution
TicksPerSecond == 2

\* ---------------------------------------------------------------- paths
\* A path is [dir, base, ts, ext]; temporary files carry their timestamp.
ScriptDir == "script"

\* directories that exist (the program never creates or removes one)
ExistingDirs == {ScriptDir, "out"}

UserDirs == {"out", "nodir"}

UserExts == {".webm", ".opus", ".mp3", ".mp4"}

UserPaths == [dir : UserDirs, base : {"a"}, ts : {0}, ext : UserExts]

NoPath == [dir |-> "", base |-> "", ts |-> 0, ext |-> ""]

\* datetime.now().strftime('%Y%m%d_%H%M%S'): the time truncated to the second
Strftime(now) == now \div TicksPerSecond

\* Path(__file__).parent / f"tmp_video_{timestamp}.webm"
TmpVideoFile(timestamp) ==
    [dir |-> ScriptDir, base |-> "tmp_video", ts |-> timestamp, ext |-> ".webm"]

\* Path(__file__).parent / f"tmp_audio_{timestamp}.opus"
TmpAudioFile(timestamp) ==
    [dir |-> ScriptDir, base |-> "tmp_audio", ts |-> timestamp, ext |-> ".opus"]

IsTmp(p) == p.dir = ScriptDir /\ p.base \in {"tmp_video", "tmp_audio"}

\* ---------------------------------------------------------------- file system
\* fsys is a function from the existing paths to their content
Exists(fsys, p) == p \in DOMAIN fsys

ParentExists(p) == p.dir \in ExistingDirs

WriteFile(fsys, p, c) ==
    [q \in (DOMAIN fsys) \cup {p} |-> IF q = p THEN c ELSE fsys[q]]

\* an unlink that removes nothing
Unlink_Keep(fsys, p) == fsys

\* Path.unlink(missing_ok=True)
Unlink(fsys, p) == [q \in (DOMAIN fsys) \ {p} |-> fsys[q]]

\* Path.rename(target): os.rename; renaming a path to itself changes nothing
Rename(fsys, from, to) ==
    IF from = to THEN fsys
    ELSE [q \in ((DOMAIN fsys) \cup {to}) \ {from} |->
             IF q = to THEN fsys[from] ELSE fsys[q]]

Content(kind, complete, src) == [kind |-> kind, complete |-> complete, src |-> src]

Preexisting == Content("preexisting", TRUE, 0)

\* ---------------------------------------------------------------- validation
\* the extension tested first
ValidateTarget_ExtensionFirst(target, extensions, fsys) ==
    IF target.ext \notin extensions THEN "TypeError"
    ELSE IF ~ParentExists(target) THEN "FileNotFoundError"
    ELSE IF Exists(fsys, target) THEN "FileExistsError"
    ELSE "none"

\* line 63 dropped
ValidateTarget_NoParentCheck(target, extensions, fsys) ==
    IF Exists(fsys, target) THEN "FileExistsError"
    ELSE IF target.ext \notin extensions THEN "TypeError"
    ELSE "none"

\* line 66 dropped
ValidateTarget_NoExistsCheck(target, extensions, fsys) ==
    IF ~ParentExists(target) THEN "FileNotFoundError"
    ELSE IF target.ext \notin extensions THEN "TypeError"
    ELSE "none"

\* line 69 dropped
ValidateTarget_NoExtCheck(target, extensions, fsys) ==
    IF ~ParentExists(target) THEN "FileNotFoundError"
    ELSE IF Exists(fsys, target) THEN "FileExistsError"
    ELSE "none"

\* YouTubeVideo.__validate_target: the exception raised, or "none"
ValidateTarget(target, extensions, fsys) ==
    IF ~ParentExists(target) THEN "FileNotFoundError"
    ELSE IF Exists(fsys, target) THEN "FileExistsError"
    ELSE IF target.ext \notin extensions THEN "TypeError"
    ELSE "none"

VideoExtensions == {".webm"}

AudioExtensions == {".opus", ".mp3"}

\* ---------------------------------------------------------------- streams
\* pytube Stream records; a str is a sequence of one-character strings
Str480p == <<"4", "8", "0", "p">>
Str720p == <<"7", "2", "0", "p">>
Str1080p == <<"1", "0", "8", "0", "p">>
Str2160p == <<"2", "1", "6", "0", "p">>

VideoStream(itag, mime, adaptive, codec, res, fps) ==
    [itag |-> itag, mime_type |-> mime, is_adaptive |-> adaptive,
     video_codec |-> codec, audio_codec |-> "none",
     resolution |-> res, fps |-> fps, bitrate |-> 0]

AudioStream(itag, mime, adaptive, codec, bitrate) ==
    [itag |-> itag, mime_type |-> mime, is_adaptive |-> adaptive,
     video_codec |-> "none", audio_codec |-> codec,
     resolution |-> <<>>, fps |-> 0, bitrate |-> bitrate]

\* the streams the provider may list: eligible video streams (two of them
\* with equal resolution and frame rate), a video stream of another
\* container, eligible audio streams (two of equal bit rate) and an audio
\* stream of another container
Catalogue ==
    { VideoStream(2, "video/webm", TRUE, "vp9", Str1080p, 30),
      VideoStream(3, "video/webm", TRUE, "vp9.2", Str1080p, 60),
      VideoStream(4, "video/webm", TRUE, "vp9", Str480p, 60),
      VideoStream(5, "video/mp4", TRUE, "avc1", Str2160p, 60),
      AudioStream(6, "audio/webm", TRUE, "opus", 128),
      AudioStream(7, "audio/webm", TRUE, "opus", 256),
      AudioStream(8, "audio/mp4", TRUE, "mp4a", 320),
      VideoStream(9, "video/webm", TRUE, "vp9", Str1080p, 60),
      AudioStream(10, "audio/webm", TRUE, "opus", 256) }

RECURSIVE SeqsNoRep(_, _)
SeqsNoRep(S, n) ==
    IF n = 0 THEN {<<>>}
    ELSE LET shorter == SeqsNoRep(S, n - 1)
         IN shorter \cup
            UNION {{Append(q, x) : x \in S \ {q[i] : i \in 1..Len(q)}} :
                   q \in {r \in shorter : Len(r) = n - 1}}

StreamLists == SeqsNoRep(Catalogue, MaxStreams)

\* ---------------------------------------------------------------- selection
DigitValue(c) ==
    CASE c = "0" -> 0 [] c = "1" -> 1 [] c = "2" -> 2 [] c = "3" -> 3
      [] c = "4" -> 4 [] c = "5" -> 5 [] c = "6" -> 6 [] c = "7" -> 7
      [] c = "8" -> 8 [] c = "9" -> 9

\* int(s) for a str of decimal digits
RECURSIVE ParseInt(_)
ParseInt(s) ==
    IF Len(s) = 0 THEN 0
    ELSE 10 * ParseInt(SubSeq(s, 1, Len(s) - 1)) + DigitValue(s[Len(s)])

\* s[:-1]
DropLast(s) == SubSeq(s, 1, Len(s) - 1)

\* save_video_as.check_if_dash_stream
CheckIfDashStream(stream) ==
    /\ stream.mime_type = "video/webm"
    /\ stream.is_adaptive
    /\ stream.video_codec \in {"vp9", "vp9.2"}

\* the key with FPS first
SortCriteria_FpsFirst(stream) ==
    <<stream.fps, ParseInt(DropLast(stream.resolution))>>

\* save_video_as.sort_criteria: (int(stream.resolution[:-1]), stream.fps)
SortCriteria(stream) ==
    <<ParseInt(DropLast(stream.resolution)), stream.fps>>

\* key=lambda stream: stream.bitrate
BitrateKey(stream) == <<stream.bitrate>>

\* streams.filter(mime_type="audio/webm", audio_codec="opus", adaptive=True)
AudioFilter(stream) ==
    /\ stream.mime_type = "audio/webm"
    /\ stream.audio_codec = "opus"
    /\ stream.is_adaptive

\* Python's < on tuples of int
RECURSIVE TupleLess(_, _)
TupleLess(a, b) ==
    IF Len(a) = 0 THEN Len(b) > 0
    ELSE IF Len(b) = 0 THEN FALSE
    ELSE IF a[1] # b[1] THEN a[1] < b[1]
    ELSE TupleLess(Tail(a), Tail(b))

\* the streams of a list that pass a filter, in the list's order
RECURSIVE FilterVideo(_)
FilterVideo(list) ==
    IF list = <<>> THEN <<>>
    ELSE IF CheckIfDashStream(Head(list))
         THEN <<Head(list)>> \o FilterVideo(Tail(list))
         ELSE FilterVideo(Tail(list))

RECURSIVE FilterAudio(_)
FilterAudio(list) ==
    IF list = <<>> THEN <<>>
    ELSE IF AudioFilter(Head(list))
         THEN <<Head(list)>> \o FilterAudio(Tail(list))
         ELSE FilterAudio(Tail(list))

\* [key, stream] pairs of a list
VideoKeyed(list) == [i \in 1..Len(list) |-> [key |-> SortCriteria(list[i]), stream |-> list[i]]]

AudioKeyed(list) == [i \in 1..Len(list) |-> [key |-> BitrateKey(list[i]), stream |-> list[i]]]

\* insert x in front of the elements that are equal to it
RECURSIVE InsertDesc_BeforeEqual(_, _)
InsertDesc_BeforeEqual(sortedList, x) ==
    IF sortedList = <<>> THEN <<x>>
    ELSE IF ~TupleLess(x.key, Head(sortedList).key)
         THEN <<x>> \o sortedList
         ELSE <<Head(sortedList)>> \o InsertDesc_BeforeEqual(Tail(sortedList), x)

\* insert x into a descending list behind every element that is not smaller
RECURSIVE InsertDesc(_, _)
InsertDesc(sortedList, x) ==
    IF sortedList = <<>> THEN <<x>>
    ELSE IF TupleLess(Head(sortedList).key, x.key)
         THEN <<x>> \o sortedList
         ELSE <<Head(sortedList)>> \o InsertDesc(Tail(sortedList), x)

\* ascending order, the reverse flag lost
RECURSIVE SortedAscending(_)
SortedAscending(keyed) ==
    IF keyed = <<>> THEN <<>>
    ELSE LET rest == SortedAscending(SubSeq(keyed, 1, Len(keyed) - 1))
             x == keyed[Len(keyed)]
             Smaller == {i \in 1..Len(rest) : ~TupleLess(x.key, rest[i].key)}
             n == Cardinality(Smaller)
         IN SubSeq(rest, 1, n) \o <<x>> \o SubSeq(rest, n + 1, Len(rest))

\* sorted(..., key=..., reverse=True): descending and stable
RECURSIVE SortedReverse(_)
SortedReverse(keyed) ==
    IF keyed = <<>> THEN <<>>
    ELSE InsertDesc(SortedReverse(SubSeq(keyed, 1, Len(keyed) - 1)), keyed[Len(keyed)])

\* best_quality_stream, *_ = sorted(...): the streams in sorted order
SortedVideo(list) == SortedReverse(VideoKeyed(FilterVideo(list)))

SortedAudio(list) == SortedReverse(AudioKeyed(FilterAudio(list)))

\* an empty list yields no stream instead of raising
SelectBest_NoneOnEmpty(sortedStreams) ==
    IF sortedStreams = <<>>
    THEN [exc |-> "none", best |-> 0]
    ELSE [exc |-> "none", best |-> sortedStreams[1].stream.itag]

\* best_quality_stream, *_ = sorted(...): the first element; unpacking an
\* empty list raises ValueError
SelectBest(sortedStreams) ==
    IF sortedStreams = <<>>
    THEN [exc |-> "ValueError", best |-> 0]
    ELSE [exc |-> "none", best |-> sortedStreams[1].stream.itag]

\* ---------------------------------------------------------------- state
VARIABLES
    stack,       \* call stack of YouTubeVideo methods, innermost frame last
    fs,          \* the file system: existing path -> content
    fs0,         \* the file system when the program started
    clock,       \* the time datetime.now() returns, in ticks
    streams,     \* self.video.streams as the provider lists them
    phase,       \* "init", "running" or "done"
    result,      \* "none", "ok" or the exception that left the program
    arguments,   \* the Namespace main received, or the direct call made
    constructed, \* YouTube(hyperlink) was called
    printed,     \* the version string was printed
    enums,       \* number of times the stream list was enumerated
    downloads,   \* Stream.download calls made, in order
    procs,       \* subprocess.run calls made, in order
    created,     \* paths this run wrote at some point
    returns      \* the methods that have returned or raised, in order

vars == <<stack, fs, fs0, clock, streams, phase, result, arguments,
          constructed, printed, enums, downloads, procs, created, returns>>

\* the history of I/O the run has performed
io == <<enums, downloads, procs, created>>

Hyperlinks == {"https://youtu.be/x", "junk"}

Frame(fn, target) ==
    [fn |-> fn, target |-> target, pc |-> "validate",
     tmp_video_file |-> NoPath, tmp_audio_file |-> NoPath,
     best |-> 0, exc |-> "none"]

Top == stack[Len(stack)]

SetTop(f) == [stack EXCEPT ![Len(stack)] = f]

Running(fn, pc) ==
    /\ phase = "running"
    /\ stack # <<>>
    /\ Top.fn = fn
    /\ Top.pc = pc

\* files that may lie in the output directory before the program starts
InitialFiles == [dir : {"out"}, base : {"a"}, ts : {0}, ext : {".webm", ".mp3"}]

Init ==
    /\ stack = <<>>
    /\ \E present \in SUBSET InitialFiles : fs = [p \in present |-> Preexisting]
    /\ fs0 = fs
    /\ clock = 0
    /\ streams \in StreamLists
    /\ phase = "init"
    /\ result = "none"
    /\ arguments = [version |-> FALSE, audio_only |-> FALSE,
                    hyperlink |-> "", target |-> NoPath, fn |-> "none"]
    /\ constructed = FALSE
    /\ printed = FALSE
    /\ enums = 0
    /\ downloads = <<>>
    /\ procs = <<>>
    /\ created = {}
    /\ returns = <<>>

\* the mux right after the video call
AfterCall_SkipAudio(pc) ==
    CASE pc = "in_video" -> "mux"
      [] pc = "in_audio" -> "mux"

\* save_as, lines 201-208: the statement after a nested call that returned
AfterCall(pc) ==
    CASE pc = "in_video" -> "call_audio"
      [] pc = "in_audio" -> "mux"

\* a method returns or raises: the frame is popped; an exception sends the
\* caller to its finally block, a normal return to its next statement
Leave(exc) ==
    /\ returns' = Append(returns, [fn |-> Top.fn, exc |-> exc])
    /\ IF Len(stack) = 1
       THEN /\ stack' = <<>>
            /\ phase' = "done"
            /\ result' = IF exc = "none" THEN "ok" ELSE exc
       ELSE LET caller == stack[Len(stack) - 1]
                resumed == [caller EXCEPT
                               !.pc = IF exc = "none" THEN AfterCall(caller.pc) ELSE "finally",
                               !.exc = exc]
            IN /\ stack' = Append(SubSeq(stack, 1, Len(stack) - 2), resumed)
               /\ UNCHANGED <<phase, result>>

\* ---------------------------------------------------------------- main
\* the version test moved behind the construction of the provider
MainBranch_VersionLate(args) ==
    IF args.audio_only THEN "save_audio_as"
    ELSE IF args.version THEN "version" ELSE "save_as"

\* main, lines 224-237: what the arguments select
MainBranch(args) ==
    IF args.version THEN "version"
    ELSE IF args.audio_only THEN "save_audio_as" ELSE "save_as"

\* YouTube(hyperlink): pytube raises on a string that holds no video id
ConstructorRaises(hyperlink) == hyperlink = "junk"

\* main(arguments) up to the call of the selected method
Main ==
    /\ phase = "init"
    /\ \E version \in BOOLEAN, audio_only \in BOOLEAN,
          hyperlink \in Hyperlinks, target \in UserPaths :
         LET args == [version |-> version, audio_only |-> audio_only,
                      hyperlink |-> hyperlink, target |-> target,
                      fn |-> MainBranch([version |-> version, audio_only |-> audio_only])]
         IN /\ arguments' = args
            /\ IF args.fn = "version"
               THEN /\ printed' = TRUE
                    /\ phase' = "done"
                    /\ result' = "ok"
                    /\ UNCHANGED <<stack, constructed>>
               ELSE /\ constructed' = TRUE
                    /\ printed' = FALSE
                    /\ IF ~ConstructorRaises(hyperlink)
                       THEN /\ stack' = <<Frame(args.fn, target)>>
                            /\ phase' = "running"
                            /\ result' = "none"
                       ELSE /\ stack' = <<>>
                            /\ phase' = "done"
                            /\ result' = "ProviderError"
    /\ UNCHANGED <<fs, fs0, clock, streams, io, returns>>

\* YouTubeVideo(hyperlink).save_video_as(target) called by a library user
ApiSaveVideoAs ==
    /\ phase = "init"
    /\ \E hyperlink \in Hyperlinks, target \in UserPaths :
         /\ arguments' = [version |-> FALSE, audio_only |-> FALSE,
                          hyperlink |-> hyperlink, target |-> target,
                          fn |-> "save_video_as"]
         /\ IF ~ConstructorRaises(hyperlink)
            THEN /\ stack' = <<Frame("save_video_as", target)>>
                 /\ phase' = "running"
                 /\ result' = "none"
            ELSE /\ stack' = <<>>
                 /\ phase' = "done"
                 /\ result' = "ProviderError"
    /\ constructed' = TRUE
    /\ UNCHANGED <<fs, fs0, clock, streams, printed, io, returns>>

\* time passes while a network operation blocks
Tick ==
    /\ phase = "running"
    /\ stack # <<>>
    /\ Top.pc \in {"select", "downloading"}
    /\ clock < MaxClock
    /\ clock' = clock + 1
    /\ UNCHANGED <<stack, fs, fs0, streams, phase, result, returns, arguments,
                   constructed, printed, io>>

\* ---------------------------------------------------------------- shared steps
static == <<fs0, streams, arguments, constructed, printed>>

\* the temporary file a save_video_as / save_audio_as frame downloads to
TmpOf(frame) ==
    IF frame.fn = "save_video_as" THEN frame.tmp_video_file ELSE frame.tmp_audio_file

\* the statement after a successful download in save_audio_as, with the
\* suffix test of line 156 inverted
AfterAudioDownload_Inverted(target) ==
    IF target.ext = ".mp3" THEN "rename" ELSE "transcode"

\* save_audio_as, lines 156-164: transcode for *.mp3, rename otherwise
AfterAudioDownload(target) ==
    IF target.ext = ".mp3" THEN "transcode" ELSE "rename"

\* what a run of ffmpeg can do: its exit status and what it leaves at the
\* output path ("none": nothing, "partial": an unfinished file, "full")
FfmpegOutcomes(fsys, inputs, output) ==
    IF (\E i \in inputs : ~Exists(fsys, i)) \/ Exists(fsys, output)
    THEN {[exit |-> 1, out |-> "none"]}
    ELSE {[exit |-> 0, out |-> "full"],
          [exit |-> 1, out |-> "none"],
          [exit |-> 1, out |-> "partial"]}

\* subprocess.run(shlex.split(command), check=True)
SubprocessRun(cmd, inputs, output) ==
    \E o \in FfmpegOutcomes(fs, inputs, output) :
        /\ procs' = Append(procs, [cmd |-> cmd, inputs |-> inputs,
                                   output |-> output, exit |-> o.exit])
        /\ fs' = IF o.out = "none" THEN fs
                 ELSE WriteFile(fs, output, Content(cmd, o.out = "full", 0))
        /\ created' = IF o.out = "none" THEN created ELSE created \cup {output}
        /\ stack' = SetTop([Top EXCEPT
                               !.pc = "finally",
                               !.exc = IF o.exit = 0 THEN "none" ELSE "CalledProcessError"])

\* the validation that opens save_video_as and save_audio_as
ValidateStep(extensions) ==
    LET exc == ValidateTarget(Top.target, extensions, fs)
    IN /\ IF exc # "none"
          THEN Leave(exc)
          ELSE /\ stack' = SetTop([Top EXCEPT !.pc = "select"])
               /\ UNCHANGED <<phase, result, returns>>
       /\ UNCHANGED <<fs, clock, static, io>>

\* best_quality_stream.download(...): the request fails at once or the
\* temporary file is opened and the transfer starts
DownloadStep ==
    /\ \E opened \in BOOLEAN :
         /\ downloads' = Append(downloads,
                [fn |-> Top.fn, itag |-> Top.best, file |-> TmpOf(Top),
                 outcome |-> IF opened THEN "running" ELSE "failed"])
         /\ IF opened
            THEN /\ fs' = WriteFile(fs, TmpOf(Top), Content("stream", FALSE, Top.best))
                 /\ created' = created \cup {TmpOf(Top)}
                 /\ stack' = SetTop([Top EXCEPT !.pc = "downloading"])
            ELSE /\ stack' = SetTop([Top EXCEPT !.pc = "finally", !.exc = "DownloadError"])
                 /\ UNCHANGED <<fs, created>>
    /\ UNCHANGED <<clock, phase, result, returns, static, enums, procs>>

\* a failed transfer is started again
DownloadingStep_Retry(next) ==
    /\ \E ok \in BOOLEAN :
         /\ downloads' = [downloads EXCEPT ![Len(downloads)].outcome =
                                              IF ok THEN "complete" ELSE "failed"]
         /\ IF ok
            THEN /\ fs' = WriteFile(fs, TmpOf(Top), Content("stream", TRUE, Top.best))
                 /\ stack' = SetTop([Top EXCEPT !.pc = next])
            ELSE /\ stack' = SetTop([Top EXCEPT !.pc = "download"])
                 /\ UNCHANGED fs
    /\ UNCHANGED <<clock, phase, result, returns, static, enums, procs, created>>

\* the transfer ends: the file is complete, or the download raises
DownloadingStep(next) ==
    /\ \E ok \in BOOLEAN :
         /\ downloads' = [downloads EXCEPT ![Len(downloads)].outcome =
                                              IF ok THEN "complete" ELSE "failed"]
         /\ IF ok
            THEN /\ fs' = WriteFile(fs, TmpOf(Top), Content("stream", TRUE, Top.best))
                 /\ stack' = SetTop([Top EXCEPT !.pc = next])
            ELSE /\ stack' = SetTop([Top EXCEPT !.pc = "finally", !.exc = "DownloadError"])
                 /\ UNCHANGED fs
    /\ UNCHANGED <<clock, phase, result, returns, static, enums, procs, created>>

\* tmp_file.rename(target)
RenameStep ==
    /\ \E ok \in BOOLEAN :
         IF ok
         THEN /\ fs' = Rename(fs, TmpOf(Top), Top.target)
              /\ created' = created \cup {Top.target}
              /\ stack' = SetTop([Top EXCEPT !.pc = "finally"])
         ELSE /\ stack' = SetTop([Top EXCEPT !.pc = "finally", !.exc = "OSError"])
              /\ UNCHANGED <<fs, created>>
    /\ UNCHANGED <<clock, phase, result, returns, static, enums, downloads, procs>>

\* finally: tmp_file.unlink(missing_ok=True), then the method returns or
\* re-raises
FinallyStep ==
    /\ fs' = Unlink(fs, TmpOf(Top))
    /\ Leave(Top.exc)
    /\ UNCHANGED <<clock, static, io>>

\* ---------------------------------------------------------------- save_video_as
SaveVideoValidate ==
    /\ Running("save_video_as", "validate")
    /\ ValidateStep(VideoExtensions)

\* lines 102-116: enumerate, filter, sort, unpack, name the temporary file
SaveVideoSelect ==
    /\ Running("save_video_as", "select")
    /\ enums' = enums + 1
    /\ \E ok \in BOOLEAN :
         IF ~ok THEN Leave("ProviderError")
         ELSE LET selected == SelectBest(SortedVideo(streams))
              IN IF selected.exc # "none"
                 THEN Leave(selected.exc)
                 ELSE /\ stack' = SetTop([Top EXCEPT
                                !.best = selected.best,
                                !.tmp_video_file = TmpVideoFile(Strftime(clock)),
                                !.pc = "download"])
                      /\ UNCHANGED <<phase, result, returns>>
    /\ UNCHANGED <<fs, clock, static, downloads, procs, created>>

SaveVideoDownload ==
    /\ Running("save_video_as", "download")
    /\ DownloadStep

SaveVideoDownloading ==
    /\ Running("save_video_as", "downloading")
    /\ DownloadingStep("rename")

SaveVideoRename ==
    /\ Running("save_video_as", "rename")
    /\ RenameStep

SaveVideoFinally ==
    /\ Running("save_video_as", "finally")
    /\ FinallyStep

\* ---------------------------------------------------------------- save_audio_as
SaveAudioValidate ==
    /\ Running("save_audio_as", "validate")
    /\ ValidateStep(AudioExtensions)

\* lines 143-149
SaveAudioSelect ==
    /\ Running("save_audio_as", "select")
    /\ enums' = enums + 1
    /\ \E ok \in BOOLEAN :
         IF ~ok THEN Leave("ProviderError")
         ELSE LET selected == SelectBest(SortedAudio(streams))
              IN IF selected.exc # "none"
                 THEN Leave(selected.exc)
                 ELSE /\ stack' = SetTop([Top EXCEPT
                                !.best = selected.best,
                                !.tmp_audio_file = TmpAudioFile(Strftime(clock)),
                                !.pc = "download"])
                      /\ UNCHANGED <<phase, result, returns>>
    /\ UNCHANGED <<fs, clock, static, downloads, procs, created>>

SaveAudioDownload ==
    /\ Running("save_audio_as", "download")
    /\ DownloadStep

SaveAudioDownloading ==
    /\ Running("save_audio_as", "downloading")
    /\ DownloadingStep(AfterAudioDownload(Top.target))

\* ffmpeg -i {tmp_audio_file} -c:a libmp3lame -q:a 0 {target}
SaveAudioTranscode ==
    /\ Running("save_audio_as", "transcode")
    /\ SubprocessRun("transcode", {Top.tmp_audio_file}, Top.target)
    /\ UNCHANGED <<clock, phase, result, returns, static, enums, downloads>>

SaveAudioRename ==
    /\ Running("save_audio_as", "rename")
    /\ RenameStep

SaveAudioFinally ==
    /\ Running("save_audio_as", "finally")
    /\ FinallyStep

\* ---------------------------------------------------------------- save_as
\* lines 190-197: validation, then one timestamp for both temporary files
SaveAsValidate ==
    /\ Running("save_as", "validate")
    /\ LET exc == ValidateTarget(Top.target, VideoExtensions, fs)
           timestamp == Strftime(clock)
       IN IF exc # "none"
          THEN Leave(exc)
          ELSE /\ stack' = SetTop([Top EXCEPT
                                     !.tmp_video_file = TmpVideoFile(timestamp),
                                     !.tmp_audio_file = TmpAudioFile(timestamp),
                                     !.pc = "call_video"])
               /\ UNCHANGED <<phase, result, returns>>
    /\ UNCHANGED <<fs, clock, static, io>>

\* self.save_video_as(tmp_video_file)
SaveAsCallVideo ==
    /\ Running("save_as", "call_video")
    /\ stack' = Append(SetTop([Top EXCEPT !.pc = "in_video"]),
                       Frame("save_video_as", Top.tmp_video_file))
    /\ UNCHANGED <<fs, clock, phase, result, returns, static, io>>

\* self.save_audio_as(tmp_audio_file)
SaveAsCallAudio ==
    /\ Running("save_as", "call_audio")
    /\ stack' = Append(SetTop([Top EXCEPT !.pc = "in_audio"]),
                       Frame("save_audio_as", Top.tmp_audio_file))
    /\ UNCHANGED <<fs, clock, phase, result, returns, static, io>>

\* ffmpeg -i {tmp_video_file} -i {tmp_audio_file} {target}
SaveAsMux ==
    /\ Running("save_as", "mux")
    /\ SubprocessRun("mux", {Top.tmp_video_file, Top.tmp_audio_file}, Top.target)
    /\ UNCHANGED <<clock, phase, result, returns, static, enums, downloads>>

\* finally: both temporary files are unlinked
SaveAsFinally ==
    /\ Running("save_as", "finally")
    /\ fs' = Unlink(Unlink(fs, Top.tmp_video_file), Top.tmp_audio_file)
    /\ Leave(Top.exc)
    /\ UNCHANGED <<clock, static, io>>

\* ---------------------------------------------------------------- specification
Next ==
    \/ Main
    \/ ApiSaveVideoAs
    \/ Tick
    \/ SaveVideoValidate
    \/ SaveVideoSelect
    \/ SaveVideoDownload
    \/ SaveVideoDownloading
    \/ SaveVideoRename
    \/ SaveVideoFinally
    \/ SaveAudioValidate
    \/ SaveAudioSelect
    \/ SaveAudioDownload
    \/ SaveAudioDownloading
    \/ SaveAudioTranscode
    \/ SaveAudioRename
    \/ SaveAudioFinally
    \/ SaveAsValidate
    \/ SaveAsCallVideo
    \/ SaveAsCallAudio
    \/ SaveAsMux
    \/ SaveAsFinally

Spec == Init /\ [][Next]_vars

TypeOK ==
    /\ phase \in {"init", "running", "done"}
    /\ Len(stack) <= 2
    /\ clock \in 0..MaxClock
    /\ (phase = "running") = (stack # <<>>)

\* ---------------------------------------------------------------- properties
PublicOps == {"save_video_as", "save_audio_as", "save_as"}

\* a public operation was called with arguments.target as its destination
Called == arguments.fn \in PublicOps /\ ~ConstructorRaises(arguments.hyperlink)

\* the accepted extensions as the specification lists them
Accepted(fn) == IF fn = "save_audio_as" THEN {".opus", ".mp3"} ELSE {".webm"}

\* the run has touched neither the network, nor a process, nor the disk
NoActivity ==
    /\ enums = 0
    /\ downloads = <<>>
    /\ procs = <<>>
    /\ created = {}
    /\ fs = fs0

\* the call is still at its first statement, the validation of the target
AtValidation == phase = "running" => (Len(stack) = 1 /\ Top.pc = "validate")

\* C1: a destination whose parent directory does not exist makes every
\* public operation fail with FileNotFoundError, and before that failure no
\* stream list is enumerated, nothing is downloaded and no process is run.
C1_ParentMissingFailsFast ==
    (Called /\ ~ParentExists(arguments.target)) =>
        /\ NoActivity
        /\ AtValidation
        /\ phase = "done" => result = "FileNotFoundError"

C1_Witness ==
    /\ Called
    /\ arguments.fn = "save_as"
    /\ ~ParentExists(arguments.target)
    /\ phase = "done"
    /\ result = "FileNotFoundError"

\* C2: a destination that already exists makes every public operation fail
\* with FileExistsError; the file system stays as it was, no temporary file
\* is created and no process is run.
C2_ExistingDestinationUntouched ==
    (Called /\ Exists(fs0, arguments.target)) =>
        /\ NoActivity
        /\ AtValidation
        /\ phase = "done" => result = "FileExistsError"

C2_Witness ==
    /\ Called
    /\ arguments.fn = "save_audio_as"
    /\ Exists(fs0, arguments.target)
    /\ phase = "done"
    /\ result = "FileExistsError"
    /\ fs = fs0

\* C3 as claimed: every destination with an extension outside the accepted
\* set makes the call fail with TypeError.
C3_AsClaimed ==
    (Called /\ arguments.target.ext \notin Accepted(arguments.fn) /\ phase = "done")
        => result = "TypeError"

\* C3 amended: a destination with an extension outside the accepted set
\* whose parent directory exists and which does not exist yet makes the call
\* fail with TypeError before any activity; a destination with an accepted
\* extension never fails with TypeError.
C3_UnsupportedExtension ==
    /\ (/\ Called
        /\ arguments.target.ext \notin Accepted(arguments.fn)
        /\ ParentExists(arguments.target)
        /\ ~Exists(fs0, arguments.target)) =>
            /\ NoActivity
            /\ AtValidation
            /\ phase = "done" => result = "TypeError"
    /\ (Called /\ arguments.target.ext \in Accepted(arguments.fn)) => result # "TypeError"

C3_Witness ==
    /\ Called
    /\ arguments.fn = "save_video_as"
    /\ arguments.target.ext = ".opus"
    /\ ParentExists(arguments.target)
    /\ phase = "done"
    /\ result = "TypeError"

\* C4: when a public operation has returned, by success or by any failure,
\* none of the temporary files written during the call exists.
C4_TempFilesGone ==
    (Called /\ phase = "done") =>
        \A p \in created \cup DOMAIN fs : IsTmp(p) => ~Exists(fs, p)

\* save_as failed in its audio step after the video step had succeeded
C4_Witness ==
    /\ arguments.fn = "save_as"
    /\ phase = "done"
    /\ result = "DownloadError"
    /\ Len(downloads) = 2
    /\ \E p \in created : IsTmp(p) /\ p.base = "tmp_audio"
    /\ \E p \in created : IsTmp(p) /\ p.base = "tmp_video"

\* C5: after a public operation has failed, whatever the step that failed,
\* the destination is not there unless it was there before the call: the
\* call has not created it.
C5_NoDestinationAfterFailure ==
    (Called /\ phase = "done" /\ result # "ok") =>
        /\ Exists(fs, arguments.target) => Exists(fs0, arguments.target)
        /\ arguments.target \notin created

\* the streams of a list, and the catalogue stream with a given itag
InList(list) == {list[i] : i \in 1..Len(list)}

StreamOf(itag) == CHOOSE s \in Catalogue : s.itag = itag

Itags == {s.itag : s \in Catalogue}

\* the number a resolution string stands for
ResolutionOf(s) ==
    CASE s.resolution = Str480p -> 480
      [] s.resolution = Str720p -> 720
      [] s.resolution = Str1080p -> 1080
      [] s.resolution = Str2160p -> 2160
      [] OTHER -> 0

VideoEligible(s) ==
    s.mime_type = "video/webm" /\ s.is_adaptive /\ s.video_codec \in {"vp9", "vp9.2"}

AudioEligible(s) ==
    s.mime_type = "audio/webm" /\ s.is_adaptive /\ s.audio_codec = "opus"

\* s is eligible and no eligible stream of the list ranks above it
VideoBest(s, list) ==
    /\ s \in InList(list)
    /\ VideoEligible(s)
    /\ \A e \in InList(list) : VideoEligible(e) =>
          \/ ResolutionOf(e) < ResolutionOf(s)
          \/ ResolutionOf(e) = ResolutionOf(s) /\ e.fps <= s.fps

AudioBest(s, list) ==
    /\ s \in InList(list)
    /\ AudioEligible(s)
    /\ \A e \in InList(list) : AudioEligible(e) => e.bitrate <= s.bitrate

\* the lists of the examples: (720,30), (1080,30), (1080,60), (480,60) and
\* the bit rates 128, 256, 96
ExampleVideo ==
    << VideoStream(1, "video/webm", TRUE, "vp9", Str720p, 30),
       VideoStream(2, "video/webm", TRUE, "vp9", Str1080p, 30),
       VideoStream(3, "video/webm", TRUE, "vp9.2", Str1080p, 60),
       VideoStream(4, "video/webm", TRUE, "vp9", Str480p, 60) >>

ExampleAudio ==
    << AudioStream(6, "audio/webm", TRUE, "opus", 128),
       AudioStream(7, "audio/webm", TRUE, "opus", 256),
       AudioStream(11, "audio/webm", TRUE, "opus", 96) >>

DownloadsOf(fn) == {i \in 1..Len(downloads) : downloads[i].fn = fn}

\* the destination passes the validation of the operation called
ValidTarget ==
    /\ ParentExists(arguments.target)
    /\ ~Exists(fs0, arguments.target)
    /\ arguments.target.ext \in Accepted(arguments.fn)

\* C6: save_video_as downloads one stream only, a stream of the list that
\* is video/webm, adaptive and vp9 or vp9.2 and whose (resolution, fps) is
\* the greatest among such streams, resolution first; from (720,30),
\* (1080,30), (1080,60), (480,60) it is (1080,60), also when a stream of
\* higher resolution that fails the filter is listed.
C6_VideoSelection ==
    /\ \A i \in DownloadsOf("save_video_as") :
          /\ downloads[i].itag \in Itags
          /\ VideoBest(StreamOf(downloads[i].itag), streams)
    /\ Cardinality(DownloadsOf("save_video_as")) <= 1
    /\ (Called /\ arguments.fn = "save_video_as" /\ phase = "done" /\ result = "ok") =>
          /\ Len(downloads) = 1
          /\ Exists(fs, arguments.target)
          /\ fs[arguments.target] = Content("stream", TRUE, downloads[1].itag)
    /\ phase = "init" =>
          /\ SelectBest(SortedVideo(ExampleVideo)).best = 3
          /\ SelectBest(SortedVideo(<<StreamOf(5)>> \o ExampleVideo)).best = 3

\* save_video_as succeeded on a list of two eligible streams where the one
\* of lower frame rate has the higher resolution
C6_Witness ==
    /\ arguments.fn = "save_video_as"
    /\ phase = "done"
    /\ result = "ok"
    /\ Len(downloads) = 1
    /\ \E e \in InList(streams) :
          /\ VideoEligible(e)
          /\ ResolutionOf(e) < ResolutionOf(StreamOf(downloads[1].itag))
          /\ e.fps > StreamOf(downloads[1].itag).fps

\* C7: save_audio_as downloads one stream only, a stream of the list that
\* is audio/webm, adaptive and opus and whose bit rate is the greatest among
\* such streams, for an .opus and for an .mp3 destination alike; from the
\* bit rates 128, 256, 96 it is 256.
C7_AudioSelection ==
    /\ \A i \in DownloadsOf("save_audio_as") :
          /\ downloads[i].itag \in Itags
          /\ AudioBest(StreamOf(downloads[i].itag), streams)
    /\ Cardinality(DownloadsOf("save_audio_as")) <= 1
    /\ (Called /\ arguments.fn = "save_audio_as" /\ phase = "done" /\ result = "ok") =>
          /\ Len(downloads) = 1
          /\ Exists(fs, arguments.target)
    /\ phase = "init" => SelectBest(SortedAudio(ExampleAudio)).best = 7

C7_Witness ==
    /\ arguments.fn = "save_audio_as"
    /\ arguments.target.ext = ".mp3"
    /\ phase = "done"
    /\ result = "ok"
    /\ Len(downloads) = 1
    /\ \E e \in InList(streams) :
          AudioEligible(e) /\ e.bitrate < StreamOf(downloads[1].itag).bitrate

VideoEmpty == \A s \in InList(streams) : ~VideoEligible(s)

AudioEmpty == \A s \in InList(streams) : ~AudioEligible(s)

\* C8: with no eligible stream of the kind an operation needs, the operation
\* raises ValueError at the unpacking; nothing of that kind is downloaded, no
\* temporary file for it is written, no process is run and the destination
\* is not created.
C8_NoStreamFound ==
    /\ (/\ Called
        /\ \/ arguments.fn = "save_video_as" /\ VideoEmpty
           \/ arguments.fn = "save_audio_as" /\ AudioEmpty
           \/ arguments.fn = "save_as" /\ VideoEmpty) =>
            /\ downloads = <<>>
            /\ procs = <<>>
            /\ created = {}
            /\ fs = fs0
            /\ (phase = "done" /\ ValidTarget /\ result # "ProviderError")
                  => result = "ValueError"
    /\ (Called /\ arguments.fn = "save_as" /\ AudioEmpty /\ ~VideoEmpty) =>
            /\ DownloadsOf("save_audio_as") = {}
            /\ \A p \in created : p.base # "tmp_audio"
            /\ procs = <<>>
            /\ arguments.target \notin created
            /\ Exists(fs, arguments.target) => Exists(fs0, arguments.target)
            /\ (phase = "done" /\ ValidTarget
                   /\ result \notin {"ProviderError", "DownloadError", "OSError"})
                  => result = "ValueError"

\* save_as found a video stream, downloaded it and then found no audio stream
C8_Witness ==
    /\ arguments.fn = "save_as"
    /\ AudioEmpty
    /\ ~VideoEmpty
    /\ phase = "done"
    /\ result = "ValueError"
    /\ Len(downloads) = 1

\* C9: save_audio_as never runs ffmpeg for an .opus destination and renames
\* the temporary file instead; for an .mp3 destination it runs ffmpeg once
\* the download has succeeded, never renames, succeeds when ffmpeg exits 0
\* and raises CalledProcessError when ffmpeg exits nonzero.
C9_TranscodeOnlyForMp3 ==
    (Called /\ arguments.fn = "save_audio_as") =>
        /\ arguments.target.ext = ".opus" =>
              /\ procs = <<>>
              /\ phase = "running" => Top.pc # "transcode"
              /\ (phase = "done" /\ result = "ok") =>
                    /\ Exists(fs, arguments.target)
                    /\ fs[arguments.target] = Content("stream", TRUE, downloads[1].itag)
        /\ arguments.target.ext = ".mp3" =>
              /\ Len(procs) <= 1
              /\ phase = "running" => Top.pc # "rename"
              /\ (phase = "running" /\ Top.pc = "finally" /\ Top.exc # "DownloadError")
                    => Len(procs) = 1
              /\ (phase = "done" /\ ValidTarget
                     /\ result \notin {"ProviderError", "ValueError", "DownloadError"})
                    => Len(procs) = 1
              /\ Len(procs) = 1 =>
                    /\ procs[1].cmd = "transcode"
                    /\ procs[1].output = arguments.target
                    /\ phase = "done" =>
                          result = IF procs[1].exit = 0 THEN "ok" ELSE "CalledProcessError"

C9_Witness ==
    /\ arguments.fn = "save_audio_as"
    /\ arguments.target.ext = ".mp3"
    /\ phase = "done"
    /\ Len(procs) = 1
    /\ procs[1].exit # 0
    /\ result = "CalledProcessError"

\* C10: with the version flag set main prints the version and returns; the
\* provider is not constructed, the target is not looked at, nothing is
\* downloaded and no process is run, whatever the other arguments are.
C10_VersionShortCircuits ==
    arguments.version =>
        /\ printed
        /\ ~constructed
        /\ phase = "done"
        /\ result = "ok"
        /\ stack = <<>>
        /\ NoActivity

\* the flag was given with -a, a string that is no video link and a target
\* in a directory that does not exist
C10_Witness ==
    /\ arguments.version
    /\ arguments.audio_only
    /\ ConstructorRaises(arguments.hyperlink)
    /\ ~ParentExists(arguments.target)
    /\ printed
    /\ phase = "done"

\* C11: whenever save_as is about to run the mux, after both nested calls
\* have returned normally, the two temporary files named on its command
\* line exist, whatever the clock showed during the nested calls.
C11_MuxInputsExist ==
    (Called /\ Running("save_as", "mux")) =>
        /\ Exists(fs, Top.tmp_video_file)
        /\ Exists(fs, Top.tmp_audio_file)

ReturnsOf(fn) == {i \in 1..Len(returns) : returns[i].fn = fn}

Returned(fn) == \E i \in ReturnsOf(fn) : returns[i].exc = "none"

Raised(fn) == \E i \in ReturnsOf(fn) : returns[i].exc # "none"

OnStack(fn) == \E k \in 1..Len(stack) : stack[k].fn = fn

\* the audio step of save_as has begun
AudioStarted ==
    \/ OnStack("save_audio_as")
    \/ DownloadsOf("save_audio_as") # {}
    \/ ReturnsOf("save_audio_as") # {}
    \/ stack # <<>> /\ stack[1].pc \in {"call_audio", "in_audio"}

\* the mux of save_as is about to run or has run
MuxStarted == procs # <<>> \/ (stack # <<>> /\ stack[1].pc = "mux")

\* C12: in save_as the video download is complete and save_video_as has
\* returned before the audio step begins; the mux runs only after both
\* methods have returned normally with their downloads complete; after a
\* failed video step neither the audio step nor the mux begins, after a
\* failed audio step the mux does not; no two downloads are in progress.
C12_StepsInOrder ==
    (Called /\ arguments.fn = "save_as") =>
        /\ AudioStarted =>
              /\ Returned("save_video_as")
              /\ ~OnStack("save_video_as")
              /\ downloads[1].fn = "save_video_as"
              /\ downloads[1].outcome = "complete"
        /\ MuxStarted =>
              /\ Returned("save_video_as")
              /\ Returned("save_audio_as")
              /\ Len(stack) <= 1
              /\ Len(downloads) = 2
              /\ downloads[2].fn = "save_audio_as"
              /\ downloads[2].outcome = "complete"
        /\ Raised("save_video_as") => (~AudioStarted /\ ~MuxStarted)
        /\ Raised("save_audio_as") => ~MuxStarted
        /\ \A i \in 1..(Len(downloads) - 1) : downloads[i].outcome # "running"

\* save_as ran the video download, the audio download and the mux
C12_Witness ==
    /\ arguments.fn = "save_as"
    /\ phase = "done"
    /\ result = "ok"
    /\ Len(downloads) = 2
    /\ Len(procs) = 1
    /\ returns[1].fn = "save_video_as"
    /\ returns[2].fn = "save_audio_as"

\* C13: the destination a method was called with, absent when the program
\* started, exists only once the method has taken its last step before the
\* finally (the rename or the ffmpeg run), never while the method still
\* validates, selects, downloads or waits for a nested call.
C13_DestinationWrittenLast ==
    \A k \in 1..Len(stack) :
        (~Exists(fs0, stack[k].target) /\ Exists(fs, stack[k].target))
            => stack[k].pc = "finally"

SomeDownloadFailed == \E i \in 1..Len(downloads) : downloads[i].outcome = "failed"

SomeProcessFailed == \E j \in 1..Len(procs) : procs[j].exit # 0

\* the only change of the file system is that temporary files disappear
OnlyTempFilesDeleted ==
    /\ DOMAIN fs' \subseteq DOMAIN fs
    /\ \A p \in DOMAIN fs' : fs'[p] = fs[p]
    /\ \A p \in (DOMAIN fs) \ (DOMAIN fs') : IsTmp(p)

C14_AtMostOnce ==
    /\ Cardinality(DownloadsOf("save_video_as")) <= 1
    /\ Cardinality(DownloadsOf("save_audio_as")) <= 1
    /\ Len(procs) <= 1
    /\ \A i \in 1..Len(downloads) :
          downloads[i].outcome = "failed" => (i = Len(downloads) /\ procs = <<>>)

C14_AfterFailure ==
    (SomeDownloadFailed \/ SomeProcessFailed) =>
        /\ downloads' = downloads
        /\ procs' = procs
        /\ enums' = enums
        /\ OnlyTempFilesDeleted

\* C14: in one run each method downloads at most once and ffmpeg is run at
\* most once; once a download has failed or ffmpeg has exited nonzero, no
\* step downloads, enumerates or runs a process again, and the file system
\* changes only by the deletion of temporary files.
C14_NoRetries == []C14_AtMostOnce /\ [][C14_AfterFailure]_vars

\* save_as has returned after its audio download failed
C14_Witness ==
    /\ arguments.fn = "save_as"
    /\ phase = "done"
    /\ result = "DownloadError"
    /\ Len(downloads) = 2
    /\ downloads[2].outcome = "failed"
    /\ procs = <<>>

\* the position of a stream in a list without repetition
IndexIn(list, s) == CHOOSE i \in 1..Len(list) : list[i] = s

\* no stream listed before s is eligible with the same ranking key
FirstOfVideoTies(s, list) ==
    \A e \in InList(list) :
        (/\ VideoEligible(e)
         /\ ResolutionOf(e) = ResolutionOf(s)
         /\ e.fps = s.fps) => IndexIn(list, s) <= IndexIn(list, e)

FirstOfAudioTies(s, list) ==
    \A e \in InList(list) :
        (AudioEligible(e) /\ e.bitrate = s.bitrate)
            => IndexIn(list, s) <= IndexIn(list, e)

\* C15: among the eligible streams that share the greatest ranking key the
\* one downloaded is the one the provider lists first, for video and for
\* audio, so the list alone fixes the stream selected.
C15_TiesByListOrder ==
    /\ \A i \in DownloadsOf("save_video_as") :
          /\ downloads[i].itag \in Itags
          /\ VideoBest(StreamOf(downloads[i].itag), streams)
          /\ FirstOfVideoTies(StreamOf(downloads[i].itag), streams)
    /\ \A i \in DownloadsOf("save_audio_as") :
          /\ downloads[i].itag \in Itags
          /\ AudioBest(StreamOf(downloads[i].itag), streams)
          /\ FirstOfAudioTies(StreamOf(downloads[i].itag), streams)

\* two video streams tie on (1080, 60); the one listed first was downloaded
C15_Witness ==
    /\ streams = <<StreamOf(9), StreamOf(3)>>
    /\ Len(downloads) = 1
    /\ downloads[1].fn = "save_video_as"
    /\ downloads[1].itag = 9
    /\ downloads[1].outcome = "complete"

\* the error the validation reports, by the priority of the three tests
ExpectedValidation(fn, target) ==
    IF ~ParentExists(target) THEN "FileNotFoundError"
    ELSE IF Exists(fs0, target) THEN "FileExistsError"
    ELSE IF target.ext \notin Accepted(fn) THEN "TypeError"
    ELSE "none"

ValidationErrors == {"FileNotFoundError", "FileExistsError", "TypeError"}

\* C16: a call whose destination violates a validation condition ends with
\* one error: FileNotFoundError when the parent is missing, else
\* FileExistsError when the destination exists, else TypeError for an
\* extension that is not accepted; a destination that violates none ends
\* with no validation error.
C16_ValidationPriority ==
    (Called /\ phase = "done") =>
        IF ExpectedValidation(arguments.fn, arguments.target) # "none"
        THEN /\ result = ExpectedValidation(arguments.fn, arguments.target)
             /\ Len(returns) = 1
             /\ NoActivity
        ELSE result \notin ValidationErrors

\* an existing file with an extension that is not accepted
C16_Witness ==
    /\ Called
    /\ Exists(fs0, arguments.target)
    /\ arguments.target.ext \notin Accepted(arguments.fn)
    /\ phase = "done"
    /\ result = "FileExistsError"

====
